---- MODULE Spec2Model ----
(***************************************************************************)
(* The batch pipeline of the repository: the staging loader                *)
(* (scripts/ingestion/ingest_to_staging.py), the cleansing stage           *)
(* (scripts/transformation/staging_to_production.py) and the warehouse     *)
(* load (scripts/transformation/load_warehouse.py), each one database      *)
(* transaction made of the statements the code issues, in program order.   *)
(*                                                                         *)
(* Tables are sequences of rows (records).  Text is a sequence of          *)
(* one-character strings so that strip() and lower() are computed.  Money  *)
(* is an integer.  Columns the code only copies (phone, city, brand, ...)  *)
(* are left out of the rows.                                               *)
(***************************************************************************)
EXTENDS Integers, Sequences, FiniteSets, Bags, TLC

\* ------------------------------------------------------------------------
\* Bounds
\* ------------------------------------------------------------------------
\* Rows in the raw CSV files of one staging-loader run, all files together.
MaxRows == 2
\* Runs of the staging loader in one behaviour.
MaxIngests == 2
\* Runs of the warehouse load in one behaviour.
MaxLoads == 2

\* ------------------------------------------------------------------------
\* Values
\* ------------------------------------------------------------------------
\* SQL NULL / pandas None in a text column (no character sequence equals it).
NULL == <<"<null>">>

Tables == <<"customers", "products", "transactions", "transaction_items">>

\* ------------------------------------------------------------------------
\* Generic helpers on sequences of rows
\* ------------------------------------------------------------------------
Column(s, c) == [i \in 1..Len(s) |-> s[i][c]]

Range(s) == {s[i] : i \in 1..Len(s)}

\* The rows of a table as a multiset (order ignored).
RECURSIVE RowBag(_)
RowBag(s) == IF s = <<>> THEN EmptyBag ELSE SetToBag({Head(s)}) (+) RowBag(Tail(s))

RECURSIVE Sum(_)
Sum(s) == IF s = <<>> THEN 0 ELSE Head(s) + Sum(Tail(s))

RECURSIVE SeqsUpTo(_, _)
SeqsUpTo(S, n) ==
    IF n = 0 THEN {<<>>}
    ELSE LET shorter == SeqsUpTo(S, n - 1)
         IN  shorter \cup {Append(q, x) : q \in shorter, x \in S}

\* ------------------------------------------------------------------------
\* Rows of the raw CSV files (data_generation/generate_data.py writes them;
\* the staging loader accepts whatever the files hold)
\* ------------------------------------------------------------------------
Customer(id, fn, ln, em) ==
    [customer_id |-> id, first_name |-> fn, last_name |-> ln, email |-> em]

Product(id, price, cost) == [product_id |-> id, price |-> price, cost |-> cost]

Transaction(id, cust, date, pm, total) ==
    [transaction_id |-> id, customer_id |-> cust, transaction_date |-> date,
     payment_method |-> pm, total_amount |-> total]

Item(id, txn, prod, qty, unit, disc, total) ==
    [item_id |-> id, transaction_id |-> txn, product_id |-> prod, quantity |-> qty,
     unit_price |-> unit, discount_percentage |-> disc, line_total |-> total]

Date(y, m, d) == [year |-> y, month |-> m, day |-> d]

CustomerRows ==
    { Customer(1, <<" ", "A", "l">>, <<"B", " ">>, <<" ", "A", "@", "x">>),
      Customer(1, <<"A", "l">>, <<"B">>, <<"a", "@", "x">>),
      Customer(2, NULL, <<"B">>, <<>>) }

ProductRows ==
    { Product(1, 100, 60),
      Product(2, 0, -5),
      Product(2, 40, 40),
      Product(2, 250, 100) }

TransactionRows ==
    { Transaction(1, 1, Date(2024, 1, 5), "UPI", 100),
      Transaction(1, 2, Date(2024, 1, 6), "Cash on Delivery", 70),
      Transaction(2, 2, Date(2024, 1, 5), "Cash on Delivery", 50),
      Transaction(2, 1, Date(2024, 1, 5), "UPI", 0) }

ItemRows ==
    { Item(1, 1, 1, 1, 100, 0, 100),
      Item(2, 1, 1, 2, 100, 50, 100),
      Item(2, 2, 2, 1, 250, 0, 250),
      Item(3, 2, 1, 0, 100, 0, 0) }

RawRows(t) ==
    CASE t = "customers" -> CustomerRows
      [] t = "products" -> ProductRows
      [] t = "transactions" -> TransactionRows
      [] t = "transaction_items" -> ItemRows

\* ------------------------------------------------------------------------
\* Text normalisation (staging_to_production.py)
\* ------------------------------------------------------------------------
RECURSIVE LStrip(_)
LStrip(s) == IF s # <<>> /\ Head(s) = " " THEN LStrip(Tail(s)) ELSE s

RECURSIVE RStrip(_)
RStrip(s) ==
    IF s # <<>> /\ s[Len(s)] = " " THEN RStrip(SubSeq(s, 1, Len(s) - 1)) ELSE s

\* str.strip()
Strip(s) == RStrip(LStrip(s))

LowerChar(c) ==
    CASE c = "A" -> "a"
      [] c = "B" -> "b"
      [] OTHER -> c

\* str.lower()
Lower(s) == [i \in 1..Len(s) |-> LowerChar(s[i])]

clean_text(val) == IF val = NULL THEN NULL ELSE Strip(val)

\* "if email" is false for None and for the empty string.
clean_email(email) ==
    IF email = NULL \/ email = <<>> THEN NULL ELSE Lower(clean_text(email))

\* ------------------------------------------------------------------------
\* The per-table transformations of the cleansing stage
\* ------------------------------------------------------------------------
NormalizeCustomer(r) ==
    [r EXCEPT !.first_name = clean_text(@),
              !.last_name = clean_text(@),
              !.email = clean_email(@)]

CleanCustomers(rows) == [i \in 1..Len(rows) |-> NormalizeCustomer(rows[i])]

PriceRule(r) == r.price > 0
CostRule(r) == r.cost < r.price

\* The cost rule forgotten.
ValidProducts_PriceOnly(rows) == SelectSeq(rows, PriceRule)

ValidProducts(rows) == SelectSeq(SelectSeq(rows, PriceRule), CostRule)

AmountRule(r) == r.total_amount > 0

\* The amount rule forgotten.
ValidTransactions_Unfiltered(rows) == rows

ValidTransactions(rows) == SelectSeq(rows, AmountRule)

QuantityRule(r) == r.quantity > 0

ValidItems(rows) == SelectSeq(rows, QuantityRule)

\* The key filter forgotten.
NotIn_Unfiltered(rows, col, existing) == rows

\* frame[~frame[col].isin(existing)]
NotIn(rows, col, existing) ==
    LET fresh(r) == r[col] \notin existing IN SelectSeq(rows, fresh)

\* frame.drop(columns=["loaded_at"])
DropLoadedAt(rows) ==
    [i \in 1..Len(rows) |->
        [c \in DOMAIN rows[i] \ {"loaded_at"} |-> rows[i][c]]]

\* ------------------------------------------------------------------------
\* The store
\* ------------------------------------------------------------------------
\* A staging table adds its loaded_at column to the rows of a CSV file.
WithLoadedAt(rows) ==
    [i \in 1..Len(rows) |-> [loaded_at |-> "now"] @@ rows[i]]

\* The key column of a production table is unique: an INSERT that would give
\* two rows the same key is rejected by the store.  (The definition before
\* it: a table declared without the key.)
PrimaryKeyViolation_NoConstraint(existing, new, col) == FALSE

PrimaryKeyViolation(existing, new, col) ==
    LET all == existing \o new
    IN  \E i, j \in 1..Len(all) : i < j /\ all[i][col] = all[j][col]

EmptyTables == [t \in Range(Tables) |-> <<>>]

EmptyWarehouse ==
    [dim_date |-> <<>>, dim_payment_method |-> <<>>, dim_customers |-> <<>>,
     dim_products |-> <<>>, fact_sales |-> <<>>, agg_daily_sales |-> <<>>,
     next_key |-> [dim_payment_method |-> 1, dim_customers |-> 1, dim_products |-> 1]]

EmptyStore ==
    [staging |-> EmptyTables, production |-> EmptyTables, warehouse |-> EmptyWarehouse]

\* ------------------------------------------------------------------------
\* Calendar (datetime.date as load_warehouse.py uses it)
\* ------------------------------------------------------------------------
IsLeap(y) == y % 4 = 0 /\ (y % 100 # 0 \/ y % 400 = 0)

DaysInMonth(y, m) ==
    CASE m \in {4, 6, 9, 11} -> 30
      [] m = 2 -> IF IsLeap(y) THEN 29 ELSE 28
      [] OTHER -> 31

\* current + timedelta(days=1)
NextDay(d) ==
    IF d.day < DaysInMonth(d.year, d.month) THEN [d EXCEPT !.day = @ + 1]
    ELSE IF d.month < 12 THEN [d EXCEPT !.month = @ + 1, !.day = 1]
    ELSE Date(d.year + 1, 1, 1)

\* current <= end_date
DateLeq(a, b) ==
    \/ a.year < b.year
    \/ a.year = b.year /\ a.month < b.month
    \/ a.year = b.year /\ a.month = b.month /\ a.day <= b.day

RECURSIVE DaysBeforeMonth(_, _)
DaysBeforeMonth(y, m) ==
    IF m = 1 THEN 0 ELSE DaysBeforeMonth(y, m - 1) + DaysInMonth(y, m - 1)

\* date.toordinal(): 0001-01-01 is day 1
Ordinal(d) ==
    LET y == d.year - 1
    IN  y * 365 + (y \div 4) - (y \div 100) + (y \div 400)
        + DaysBeforeMonth(d.year, d.month) + d.day

\* date.weekday(): Monday is 0
Weekday(d) == (Ordinal(d) + 6) % 7

\* int(d.strftime("%Y%m%d"))
DateKey(d) == d.year * 10000 + d.month * 100 + d.day

\* "> 5" in place of ">= 5": Saturday is not a weekend day.
DimDateRow_SundayOnly(current) ==
    [date_key |-> DateKey(current), full_date |-> current, year |-> current.year,
     quarter |-> ((current.month - 1) \div 3) + 1, month |-> current.month,
     day |-> current.day, is_weekend |-> Weekday(current) > 5]

DimDateRow(current) ==
    [date_key |-> DateKey(current), full_date |-> current, year |-> current.year,
     quarter |-> ((current.month - 1) \div 3) + 1, month |-> current.month,
     day |-> current.day, is_weekend |-> Weekday(current) >= 5]

\* The days current, current + 1, ... up to day number last of current's month
DaysThrough(current, last) ==
    [i \in 1..(last - current.day + 1) |->
        DimDateRow([current EXCEPT !.day = current.day + i - 1])]

\* The while loop of build_dim_date, one month of iterations at a time
RECURSIVE DimDateRows(_, _)
DimDateRows(current, end_date) ==
    IF ~DateLeq(current, end_date) THEN <<>>
    ELSE LET lastMonth == current.year = end_date.year /\ current.month = end_date.month
             monthEnd == DaysInMonth(current.year, current.month)
         IN  IF lastMonth THEN DaysThrough(current, end_date.day)
             ELSE DaysThrough(current, monthEnd)
                  \o DimDateRows(NextDay([current EXCEPT !.day = monthEnd]), end_date)

\* warehouse.dim_date is kept as the runs of consecutive days inserted into it;
\* its rows are the days of each run in turn.
DateRun(start_date, end_date) == [start_date |-> start_date, end_date |-> end_date]

RECURSIVE DimDateTable(_)
DimDateTable(runs) ==
    IF runs = <<>> THEN <<>>
    ELSE DimDateRows(Head(runs).start_date, Head(runs).end_date) \o DimDateTable(Tail(runs))

\* The range main passes to build_dim_date
DimDateStart == Date(2024, 1, 1)
DimDateEnd == Date(2024, 12, 31)

\* ------------------------------------------------------------------------
\* The transformations of the warehouse load (load_warehouse.py)
\* ------------------------------------------------------------------------
\* The orders in which a query may return the elements of a set
Orders(S) == {q \in SeqsUpTo(S, Cardinality(S)) : Range(q) = S /\ Len(q) = Cardinality(S)}

\* frame[[cols]] / SELECT cols
Project(rows, cols) == [i \in 1..Len(rows) |-> [c \in cols |-> rows[i][c]]]

\* The rows an inner join makes of one left row: one per matching right row,
\* carrying the columns of both.
Matches(l, right, lcol, rcol) ==
    LET same(r) == r[rcol] = l[lcol]
        m == SelectSeq(right, same)
    IN  [i \in 1..Len(m) |-> l @@ m[i]]

\* frame.merge(right, left_on=lcol, right_on=rcol) and SQL JOIN ... ON
RECURSIVE Merge(_, _, _, _)
Merge(left, right, lcol, rcol) ==
    IF left = <<>> THEN <<>>
    ELSE Matches(Head(left), right, lcol, rcol) \o Merge(Tail(left), right, lcol, rcol)

\* A dimension table gives each inserted row the next value of its key sequence.
AssignKeys(rows, keycol, next) ==
    [i \in 1..Len(rows) |-> (keycol :> (next + i - 1)) @@ rows[i]]

payment_type(x) == IF x = "Cash on Delivery" THEN "Offline" ELSE "Online"

PaymentMethodRow(x) == [payment_method_name |-> x, payment_type |-> payment_type(x)]

price_range(price) ==
    IF price < 50 THEN "Budget"
    ELSE IF price < 200 THEN "Mid-range"
    ELSE "Premium"

\* first_name + " " + last_name (missing when either is)
full_name(first, last) ==
    IF first = NULL \/ last = NULL THEN NULL ELSE first \o <<" ">> \o last

DimCustomerRow(r) ==
    [customer_id |-> r.customer_id, full_name |-> full_name(r.first_name, r.last_name),
     email |-> r.email, effective_date |-> "today", end_date |-> NULL, is_current |-> TRUE]

DimProductRow(r) ==
    [product_id |-> r.product_id, price_range |-> price_range(r.price),
     effective_date |-> "today", end_date |-> NULL, is_current |-> TRUE]

\* The fact query: transaction_items JOIN transactions JOIN products, then the
\* date_key and discount_amount columns.
FactRow(j) ==
    [transaction_id |-> j.transaction_id, quantity |-> j.quantity,
     unit_price |-> j.unit_price, discount_percentage |-> j.discount_percentage,
     line_total |-> j.line_total, profit |-> j.line_total - (j.cost * j.quantity),
     transaction_date |-> j.transaction_date, payment_method |-> j.payment_method,
     customer_id |-> j.customer_id, product_id |-> j.product_id,
     date_key |-> DateKey(j.transaction_date),
     discount_amount |-> (j.unit_price * j.quantity * j.discount_percentage) \div 100]

\* The ON clause of the products join forgotten: every product joins every item.
FactQuery_CrossJoin(production) ==
    LET ti_t == Merge(production["transaction_items"], production["transactions"],
                      "transaction_id", "transaction_id")
        everyProduct == [i \in 1..Len(production["products"]) |->
                            [cost |-> production["products"][i].cost, one |-> 1]]
        ti_t_p == Merge([i \in 1..Len(ti_t) |-> ti_t[i] @@ [one |-> 1]],
                        everyProduct, "one", "one")
    IN  [i \in 1..Len(ti_t_p) |-> FactRow(ti_t_p[i])]

FactQuery(production) ==
    LET ti_t == Merge(production["transaction_items"], production["transactions"],
                      "transaction_id", "transaction_id")
        ti_t_p == Merge(ti_t, production["products"], "product_id", "product_id")
    IN  [i \in 1..Len(ti_t_p) |-> FactRow(ti_t_p[i])]

IsCurrent(r) == r.is_current

FactColumns ==
    {"date_key", "customer_key", "product_key", "payment_method_key", "transaction_id",
     "quantity", "unit_price", "discount_amount", "line_total", "profit"}

\* COUNT(transaction_id) in place of COUNT(DISTINCT transaction_id)
AggRow_CountAll(fact, k) ==
    LET onDay(r) == r.date_key = k
        g == SelectSeq(fact, onDay)
    IN  [date_key |-> k,
         total_transactions |-> Len(g),
         total_revenue |-> Sum(Column(g, "line_total")),
         total_profit |-> Sum(Column(g, "profit")),
         unique_customers |-> Cardinality(Range(Column(g, "customer_key")))]

\* One row of INSERT INTO agg_daily_sales SELECT ... GROUP BY date_key
AggRow(fact, k) ==
    LET onDay(r) == r.date_key = k
        g == SelectSeq(fact, onDay)
    IN  [date_key |-> k,
         total_transactions |-> Cardinality(Range(Column(g, "transaction_id"))),
         total_revenue |-> Sum(Column(g, "line_total")),
         total_profit |-> Sum(Column(g, "profit")),
         unique_customers |-> Cardinality(Range(Column(g, "customer_key")))]

\* ------------------------------------------------------------------------
\* State
\* ------------------------------------------------------------------------
VARIABLES
    db,         \* the committed contents of the database
    tx,         \* the contents as seen and written by the open transaction
    run,        \* the stage being run: its position and its local variables
    files,      \* the summary files on disk
    refreshed,  \* a staging load has committed since the last committed cleansing run
    ingests,    \* runs of the staging loader so far
    loads,      \* runs of the warehouse load so far
    waiting     \* a second invocation, not executing now: its position and
                \* local variables, and the contents its transaction sees

vars == <<db, tx, run, files, refreshed, ingests, loads, waiting>>

Stopped == {"idle", "done", "raised"}

NoFile == [written |-> FALSE]

\* How a run ended: wrote = it wrote its summary file, writes = the TRUNCATE and
\* INSERT statements it had executed.
Ended(stage, how, wrote, writes) ==
    [stage |-> stage, pc |-> how, wrote |-> wrote, writes |-> writes]

\* No second invocation.
NoOther == [run |-> Ended("none", "idle", FALSE, 0), tx |-> <<>>]

Init ==
    /\ db = EmptyStore
    /\ tx = EmptyStore
    /\ run = Ended("none", "idle", FALSE, 0)
    /\ files = [ingestion_summary |-> NoFile, transformation_summary |-> NoFile]
    /\ refreshed = TRUE
    /\ ingests = 0
    /\ loads = 0
    /\ waiting = NoOther

\* ------------------------------------------------------------------------
\* Two invocations at the same time: each is its own process with its own
\* connection and transaction on the PostgreSQL store
\* (create_engine("postgresql+psycopg2://...")), one of them executing at a
\* time and the other one waiting.
\* ------------------------------------------------------------------------
\* Between "with engine.begin()" and the commit or rollback that ends it.
InTransaction(r) == r.pc \notin Stopped \cup {"summary", "finally"}

\* The tables a stage truncates, in program order.  Every TRUNCATE of a run is
\* followed by the INSERT into the same table, so the k-th table has been
\* truncated once the run has executed 2k - 1 of these statements.
Truncated(stage) ==
    CASE stage = "ingest" ->
            <<"staging.customers", "staging.products", "staging.transactions",
              "staging.transaction_items">>
      [] stage = "clean" -> <<"production.customers", "production.products">>
      [] stage = "load" ->
            <<"warehouse.dim_date", "warehouse.dim_payment_method",
              "warehouse.dim_customers", "warehouse.dim_products",
              "warehouse.fact_sales", "warehouse.agg_daily_sales">>
      [] OTHER -> <<>>

\* TRUNCATE takes an ACCESS EXCLUSIVE lock on its table, and a lock is held
\* until the transaction that took it ends.
LocksHeld(r) ==
    IF ~InTransaction(r) THEN {}
    ELSE {Truncated(r.stage)[k] : k \in {j \in 1..Len(Truncated(r.stage)) : r.writes >= 2 * j - 1}}

\* DELETE FROM in place of TRUNCATE: the rows go without a lock on the table.
Locked_DeleteFrom(table) == FALSE

\* The waiting invocation holds the lock on the table: a TRUNCATE of it waits.
Locked(table) == table \in LocksHeld(waiting.run)

\* The runs that overlap are runs of one stage.
SameStage(stage) == waiting.run.pc \in Stopped \/ waiting.run.stage = stage

\* The executing invocation is suspended (it waits for a lock, or the
\* operating system schedules the other process) and the other one goes on;
\* an invocation that has ended is a process that has exited.
\* A transaction sees its own writes and, at the default READ COMMITTED
\* isolation, what is committed when each of its statements starts.
Switch ==
    /\ run.pc \notin Stopped \/ waiting.run.pc \notin Stopped
    /\ waiting' = IF run.pc \in Stopped THEN NoOther
                  ELSE [run |-> run,
                        tx |-> IF InTransaction(run) /\ run.writes > 0 THEN tx ELSE <<>>]
    /\ run' = waiting.run
    /\ tx' = IF InTransaction(waiting.run) /\ waiting.run.writes > 0 THEN waiting.tx ELSE db
    /\ UNCHANGED <<db, files, refreshed, ingests, loads>>

\* ------------------------------------------------------------------------
\* Staging loader: ingest_to_staging.main
\* ------------------------------------------------------------------------
IngestBegin ==
    /\ run.pc \in Stopped
    /\ ingests < MaxIngests
    /\ ingests' = ingests + 1
    /\ run' = [stage |-> "ingest", pc |-> "check", idx |-> 1, df |-> <<>>,
               rows |-> 0, tables_loaded |-> <<>>, error |-> "", writes |-> 0]
    /\ tx' = db
    /\ UNCHANGED <<db, files, refreshed, loads, waiting>>

\* os.path.exists(csv_path) is false: FileNotFoundError leaves the with block,
\* the transaction rolls back and the handler records the message.
IngestMissingFile ==
    /\ run.stage = "ingest" /\ run.pc = "check" /\ run.idx <= Len(Tables)
    /\ run' = [run EXCEPT !.pc = "finally", !.error = "Missing file"]
    /\ tx' = db
    /\ UNCHANGED <<db, files, refreshed, ingests, loads, waiting>>

\* ingest_table: pd.read_csv
IngestReadCsv ==
    /\ run.stage = "ingest" /\ run.pc = "check" /\ run.idx <= Len(Tables)
    /\ \E rows \in SeqsUpTo(RawRows(Tables[run.idx]), MaxRows - run.rows) :
         run' = [run EXCEPT !.pc = "truncate", !.df = rows, !.rows = @ + Len(rows)]
    /\ UNCHANGED <<db, tx, files, refreshed, ingests, loads, waiting>>

\* ingest_table: TRUNCATE TABLE staging.<table>
IngestTruncate ==
    /\ run.stage = "ingest" /\ run.pc = "truncate"
    /\ tx' = [tx EXCEPT !.staging[Tables[run.idx]] = <<>>]
    /\ run' = [run EXCEPT !.pc = "insert", !.writes = @ + 1]
    /\ UNCHANGED <<db, files, refreshed, ingests, loads, waiting>>

\* validate_staging_load: SELECT COUNT(*) against the rows just loaded
validate_staging_load(store, table_name, expected_count) ==
    Len(store.staging[table_name]) = expected_count

\* ingest_table: df.to_sql, then the count validation and the summary entry
IngestInsert ==
    /\ run.stage = "ingest" /\ run.pc = "insert"
    /\ LET t == Tables[run.idx]
           after == [tx EXCEPT !.staging[t] = @ \o WithLoadedAt(run.df)]
           valid == validate_staging_load(after, t, Len(run.df))
       IN  /\ tx' = after
           /\ run' = [run EXCEPT
                        !.pc = "check", !.idx = @ + 1, !.df = <<>>, !.writes = @ + 1,
                        !.tables_loaded = Append(@,
                            [table |-> t, rows_loaded |-> Len(run.df),
                             status |-> IF valid THEN "success" ELSE "failed"])]
    /\ UNCHANGED <<db, files, refreshed, ingests, loads, waiting>>

\* A statement fails in the store (SQLAlchemyError): same path as a missing file.
IngestStoreError ==
    /\ run.stage = "ingest" /\ run.pc \in {"truncate", "insert"}
    /\ run' = [run EXCEPT !.pc = "finally", !.error = "store error", !.df = <<>>]
    /\ tx' = db
    /\ UNCHANGED <<db, files, refreshed, ingests, loads, waiting>>

\* The loop is over: leaving "with engine.begin()" commits.
IngestCommit ==
    /\ run.stage = "ingest" /\ run.pc = "check" /\ run.idx > Len(Tables)
    /\ db' = tx
    /\ refreshed' = TRUE
    /\ run' = [run EXCEPT !.pc = "finally"]
    /\ UNCHANGED <<tx, files, ingests, loads, waiting>>

\* finally: the summary is written whether or not the run failed; a failed run
\* then re-raises.
IngestWriteSummary ==
    /\ run.stage = "ingest" /\ run.pc = "finally"
    /\ files' = [files EXCEPT !.ingestion_summary =
                    [written |-> TRUE, tables_loaded |-> run.tables_loaded,
                     error |-> run.error]]
    /\ run' = Ended("ingest", IF run.error = "" THEN "done" ELSE "raised", TRUE, run.writes)
    /\ UNCHANGED <<db, tx, refreshed, ingests, loads, waiting>>

Ingest ==
    \/ IngestBegin \/ IngestMissingFile \/ IngestReadCsv \/ IngestTruncate
    \/ IngestInsert \/ IngestStoreError \/ IngestCommit \/ IngestWriteSummary

\* ------------------------------------------------------------------------
\* Cleansing stage: staging_to_production.main
\* ------------------------------------------------------------------------
\* summary["records_processed"][table] as the code fills it in
SummaryEntry(frame) == [input |-> Len(frame), output |-> Len(frame), filtered |-> 0]

CleanAt(pc) == run.stage = "clean" /\ run.pc = pc

CleanBegin ==
    /\ run.pc \in Stopped
    /\ SameStage("clean")
    /\ run' = [stage |-> "clean", pc |-> "customers_read", frame |-> <<>>,
               existing |-> {}, records_processed |-> <<>>, writes |-> 0,
               fresh |-> refreshed]
    /\ tx' = db
    /\ UNCHANGED <<db, files, refreshed, ingests, loads, waiting>>

\* CUSTOMERS (truncate & reload)
CleanCustomersRead ==
    /\ CleanAt("customers_read")
    /\ run' = [run EXCEPT !.pc = "customers_truncate",
                          !.frame = CleanCustomers(tx.staging["customers"])]
    /\ UNCHANGED <<db, tx, files, refreshed, ingests, loads, waiting>>

CleanCustomersTruncate ==
    /\ CleanAt("customers_truncate")
    /\ ~Locked("production.customers")
    /\ tx' = [tx EXCEPT !.production["customers"] = <<>>]
    /\ run' = [run EXCEPT !.pc = "customers_insert", !.writes = @ + 1]
    /\ UNCHANGED <<db, files, refreshed, ingests, loads, waiting>>

CleanCustomersInsert ==
    /\ CleanAt("customers_insert")
    /\ LET rows == DropLoadedAt(run.frame)
       IN  /\ ~PrimaryKeyViolation(tx.production["customers"], rows, "customer_id")
           /\ tx' = [tx EXCEPT !.production["customers"] = @ \o rows]
           /\ run' = [run EXCEPT
                        !.pc = "products_read", !.frame = <<>>, !.writes = @ + 1,
                        !.records_processed = ("customers" :> SummaryEntry(rows)) @@ @]
    /\ UNCHANGED <<db, files, refreshed, ingests, loads, waiting>>

\* PRODUCTS (truncate & reload)
CleanProductsRead ==
    /\ CleanAt("products_read")
    /\ run' = [run EXCEPT !.pc = "products_truncate",
                          !.frame = ValidProducts(tx.staging["products"])]
    /\ UNCHANGED <<db, tx, files, refreshed, ingests, loads, waiting>>

CleanProductsTruncate ==
    /\ CleanAt("products_truncate")
    /\ ~Locked("production.products")
    /\ tx' = [tx EXCEPT !.production["products"] = <<>>]
    /\ run' = [run EXCEPT !.pc = "products_insert", !.writes = @ + 1]
    /\ UNCHANGED <<db, files, refreshed, ingests, loads, waiting>>

CleanProductsInsert ==
    /\ CleanAt("products_insert")
    /\ LET rows == DropLoadedAt(run.frame)
       IN  /\ ~PrimaryKeyViolation(tx.production["products"], rows, "product_id")
           /\ tx' = [tx EXCEPT !.production["products"] = @ \o rows]
           /\ run' = [run EXCEPT
                        !.pc = "transactions_read", !.frame = <<>>, !.writes = @ + 1,
                        !.records_processed = ("products" :> SummaryEntry(rows)) @@ @]
    /\ UNCHANGED <<db, files, refreshed, ingests, loads, waiting>>

\* TRANSACTIONS (append-only)
CleanTransactionsRead ==
    /\ CleanAt("transactions_read")
    /\ run' = [run EXCEPT !.pc = "transactions_existing",
                          !.frame = ValidTransactions(tx.staging["transactions"])]
    /\ UNCHANGED <<db, tx, files, refreshed, ingests, loads, waiting>>

CleanTransactionsExisting ==
    /\ CleanAt("transactions_existing")
    /\ LET existing_txns == Range(Column(tx.production["transactions"], "transaction_id"))
       IN  run' = [run EXCEPT !.pc = "transactions_insert",
                              !.existing = existing_txns,
                              !.frame = NotIn(@, "transaction_id", existing_txns)]
    /\ UNCHANGED <<db, tx, files, refreshed, ingests, loads, waiting>>

\* The replace policy applied to transactions: the table is emptied first.
CleanTransactionsInsert_Replace ==
    /\ CleanAt("transactions_insert")
    /\ LET rows == DropLoadedAt(run.frame)
       IN  /\ tx' = [tx EXCEPT !.production["transactions"] = rows]
           /\ run' = [run EXCEPT
                        !.pc = "transaction_items_read", !.frame = <<>>,
                        !.existing = {}, !.writes = @ + 1,
                        !.records_processed = ("transactions" :> SummaryEntry(rows)) @@ @]
    /\ UNCHANGED <<db, files, refreshed, ingests, loads, waiting>>

CleanTransactionsInsert ==
    /\ CleanAt("transactions_insert")
    /\ LET rows == DropLoadedAt(run.frame)
       IN  /\ ~PrimaryKeyViolation(tx.production["transactions"], rows, "transaction_id")
           /\ tx' = [tx EXCEPT !.production["transactions"] = @ \o rows]
           /\ run' = [run EXCEPT
                        !.pc = "transaction_items_read", !.frame = <<>>,
                        !.existing = {}, !.writes = @ + 1,
                        !.records_processed = ("transactions" :> SummaryEntry(rows)) @@ @]
    /\ UNCHANGED <<db, files, refreshed, ingests, loads, waiting>>

\* TRANSACTION ITEMS (append-only)
CleanItemsRead ==
    /\ CleanAt("transaction_items_read")
    /\ run' = [run EXCEPT !.pc = "transaction_items_existing",
                          !.frame = ValidItems(tx.staging["transaction_items"])]
    /\ UNCHANGED <<db, tx, files, refreshed, ingests, loads, waiting>>

CleanItemsExisting ==
    /\ CleanAt("transaction_items_existing")
    /\ LET existing_items == Range(Column(tx.production["transaction_items"], "item_id"))
       IN  run' = [run EXCEPT !.pc = "transaction_items_insert",
                              !.existing = existing_items,
                              !.frame = NotIn(@, "item_id", existing_items)]
    /\ UNCHANGED <<db, tx, files, refreshed, ingests, loads, waiting>>

CleanItemsInsert ==
    /\ CleanAt("transaction_items_insert")
    /\ LET rows == DropLoadedAt(run.frame)
       IN  /\ ~PrimaryKeyViolation(tx.production["transaction_items"], rows, "item_id")
           /\ tx' = [tx EXCEPT !.production["transaction_items"] = @ \o rows]
           /\ run' = [run EXCEPT
                        !.pc = "commit", !.frame = <<>>, !.existing = {}, !.writes = @ + 1,
                        !.records_processed =
                            ("transaction_items" :> SummaryEntry(rows)) @@ @]
    /\ UNCHANGED <<db, files, refreshed, ingests, loads, waiting>>

CleanStatements ==
    {"customers_read", "customers_truncate", "customers_insert",
     "products_read", "products_truncate", "products_insert",
     "transactions_read", "transactions_existing", "transactions_insert",
     "transaction_items_read", "transaction_items_existing", "transaction_items_insert"}

\* Statements committed one by one (no enclosing transaction): a failure keeps
\* what was written so far.
CleanStoreError_Autocommit ==
    /\ run.stage = "clean" /\ run.pc \in CleanStatements
    /\ db' = tx
    /\ run' = Ended("clean", "raised", FALSE, run.writes)
    /\ UNCHANGED <<tx, files, refreshed, ingests, loads, waiting>>

\* A statement raises (a staging table is missing, the connection is lost, an
\* INSERT is rejected): the exception leaves the with block, the transaction
\* rolls back, and nothing in main catches it, so the summary file is never
\* reached.
CleanStoreError ==
    /\ run.stage = "clean" /\ run.pc \in CleanStatements
    /\ tx' = db
    /\ run' = Ended("clean", "raised", FALSE, run.writes)
    /\ UNCHANGED <<db, files, refreshed, ingests, loads, waiting>>

\* Leaving "with engine.begin()" without an exception commits.
CleanCommit ==
    /\ CleanAt("commit")
    /\ db' = tx
    /\ refreshed' = FALSE
    /\ run' = [run EXCEPT !.pc = "summary"]
    /\ UNCHANGED <<tx, files, ingests, loads, waiting>>

\* json.dump(summary) after the with block
CleanWriteSummary ==
    /\ CleanAt("summary")
    /\ files' = [files EXCEPT !.transformation_summary =
                    [written |-> TRUE, records_processed |-> run.records_processed]]
    /\ run' = Ended("clean", "done", TRUE, run.writes)
    /\ UNCHANGED <<db, tx, refreshed, ingests, loads, waiting>>

Clean ==
    \/ CleanBegin
    \/ CleanCustomersRead \/ CleanCustomersTruncate \/ CleanCustomersInsert
    \/ CleanProductsRead \/ CleanProductsTruncate \/ CleanProductsInsert
    \/ CleanTransactionsRead \/ CleanTransactionsExisting \/ CleanTransactionsInsert
    \/ CleanItemsRead \/ CleanItemsExisting \/ CleanItemsInsert
    \/ CleanStoreError \/ CleanCommit \/ CleanWriteSummary

\* ------------------------------------------------------------------------
\* Warehouse load: load_warehouse.main
\* ------------------------------------------------------------------------
LoadAt(pc) == run.stage = "load" /\ run.pc = pc

LoadStep(pc, frame) == [run EXCEPT !.pc = pc, !.frame = frame]
LoadWrite(pc, frame) == [run EXCEPT !.pc = pc, !.frame = frame, !.writes = @ + 1]

LoadBegin ==
    /\ run.pc \in Stopped
    /\ SameStage("load")
    /\ loads < MaxLoads
    /\ loads' = loads + 1
    /\ run' = [stage |-> "load", pc |-> "dim_date_truncate", writes |-> 0,
               frame |-> <<DateRun(DimDateStart, DimDateEnd)>>]
    /\ tx' = db
    /\ UNCHANGED <<db, files, refreshed, ingests, waiting>>

\* The days build_dim_date is called with when the range is configured
\* otherwise: around a year end, a weekend and the leap day.
DateInputs ==
    {Date(2023, 12, 30), Date(2024, 1, 1), Date(2024, 1, 3), Date(2024, 1, 6),
     Date(2024, 2, 28), Date(2024, 3, 1)}

\* main with another range: build_dim_date(start_date, end_date, conn)
LoadBeginRange ==
    /\ run.pc \in Stopped
    /\ SameStage("load")
    /\ loads < MaxLoads
    /\ loads' = loads + 1
    /\ \E start_date, end_date \in DateInputs :
         /\ DateLeq(start_date, end_date)
         /\ run' = [stage |-> "load", pc |-> "dim_date_truncate", writes |-> 0,
                    frame |-> <<DateRun(start_date, end_date)>>]
    /\ tx' = db
    /\ UNCHANGED <<db, files, refreshed, ingests, waiting>>

\* DIM DATE: build_dim_date
LoadDimDateTruncate ==
    /\ LoadAt("dim_date_truncate")
    /\ ~Locked("warehouse.dim_date")
    /\ tx' = [tx EXCEPT !.warehouse.dim_date = <<>>]
    /\ run' = LoadWrite("dim_date_insert", run.frame)
    /\ UNCHANGED <<db, files, refreshed, ingests, loads, waiting>>

LoadDimDateInsert ==
    /\ LoadAt("dim_date_insert")
    /\ tx' = [tx EXCEPT !.warehouse.dim_date = @ \o run.frame]
    /\ run' = LoadWrite("payment_read", <<>>)
    /\ UNCHANGED <<db, files, refreshed, ingests, loads, waiting>>

\* DIM PAYMENT METHOD
LoadPaymentRead ==
    /\ LoadAt("payment_read")
    /\ \E payment_methods \in
            Orders(Range(Column(tx.production["transactions"], "payment_method"))) :
         run' = LoadStep("payment_truncate",
                         [i \in 1..Len(payment_methods) |->
                             PaymentMethodRow(payment_methods[i])])
    /\ UNCHANGED <<db, tx, files, refreshed, ingests, loads, waiting>>

LoadPaymentTruncate ==
    /\ LoadAt("payment_truncate")
    /\ ~Locked("warehouse.dim_payment_method")
    /\ tx' = [tx EXCEPT !.warehouse.dim_payment_method = <<>>]
    /\ run' = LoadWrite("payment_insert", run.frame)
    /\ UNCHANGED <<db, files, refreshed, ingests, loads, waiting>>

LoadPaymentInsert ==
    /\ LoadAt("payment_insert")
    /\ tx' = [tx EXCEPT
                !.warehouse.dim_payment_method =
                    @ \o AssignKeys(run.frame, "payment_method_key",
                                    tx.warehouse.next_key.dim_payment_method),
                !.warehouse.next_key.dim_payment_method = @ + Len(run.frame)]
    /\ run' = LoadWrite("customers_read", <<>>)
    /\ UNCHANGED <<db, files, refreshed, ingests, loads, waiting>>

\* DIM CUSTOMERS
LoadCustomersRead ==
    /\ LoadAt("customers_read")
    /\ run' = LoadStep("customers_truncate", tx.production["customers"])
    /\ UNCHANGED <<db, tx, files, refreshed, ingests, loads, waiting>>

\* The TRUNCATE of dim_customers forgotten.
LoadCustomersTruncate_Skipped ==
    /\ LoadAt("customers_truncate")
    /\ run' = LoadWrite("customers_insert",
                        [i \in 1..Len(run.frame) |-> DimCustomerRow(run.frame[i])])
    /\ UNCHANGED <<db, tx, files, refreshed, ingests, loads, waiting>>

LoadCustomersTruncate ==
    /\ LoadAt("customers_truncate")
    /\ ~Locked("warehouse.dim_customers")
    /\ tx' = [tx EXCEPT !.warehouse.dim_customers = <<>>]
    /\ run' = LoadWrite("customers_insert",
                        [i \in 1..Len(run.frame) |-> DimCustomerRow(run.frame[i])])
    /\ UNCHANGED <<db, files, refreshed, ingests, loads, waiting>>

LoadCustomersInsert ==
    /\ LoadAt("customers_insert")
    /\ tx' = [tx EXCEPT
                !.warehouse.dim_customers =
                    @ \o AssignKeys(run.frame, "customer_key",
                                    tx.warehouse.next_key.dim_customers),
                !.warehouse.next_key.dim_customers = @ + Len(run.frame)]
    /\ run' = LoadWrite("products_read", <<>>)
    /\ UNCHANGED <<db, files, refreshed, ingests, loads, waiting>>

\* DIM PRODUCTS
LoadProductsRead ==
    /\ LoadAt("products_read")
    /\ LET products == tx.production["products"]
       IN  run' = LoadStep("products_truncate",
                           [i \in 1..Len(products) |-> DimProductRow(products[i])])
    /\ UNCHANGED <<db, tx, files, refreshed, ingests, loads, waiting>>

LoadProductsTruncate ==
    /\ LoadAt("products_truncate")
    /\ ~Locked("warehouse.dim_products")
    /\ tx' = [tx EXCEPT !.warehouse.dim_products = <<>>]
    /\ run' = LoadWrite("products_insert", run.frame)
    /\ UNCHANGED <<db, files, refreshed, ingests, loads, waiting>>

LoadProductsInsert ==
    /\ LoadAt("products_insert")
    /\ tx' = [tx EXCEPT
                !.warehouse.dim_products =
                    @ \o AssignKeys(run.frame, "product_key",
                                    tx.warehouse.next_key.dim_products),
                !.warehouse.next_key.dim_products = @ + Len(run.frame)]
    /\ run' = LoadWrite("fact_read", <<>>)
    /\ UNCHANGED <<db, files, refreshed, ingests, loads, waiting>>

\* FACT SALES
LoadFactRead ==
    /\ LoadAt("fact_read")
    /\ run' = LoadStep("fact_customers", FactQuery(tx.production))
    /\ UNCHANGED <<db, tx, files, refreshed, ingests, loads, waiting>>

LoadFactMergeCustomers ==
    /\ LoadAt("fact_customers")
    /\ LET current == Project(SelectSeq(tx.warehouse.dim_customers, IsCurrent),
                              {"customer_key", "customer_id"})
       IN  run' = LoadStep("fact_products",
                           Merge(run.frame, current, "customer_id", "customer_id"))
    /\ UNCHANGED <<db, tx, files, refreshed, ingests, loads, waiting>>

LoadFactMergeProducts ==
    /\ LoadAt("fact_products")
    /\ LET current == Project(SelectSeq(tx.warehouse.dim_products, IsCurrent),
                              {"product_key", "product_id"})
       IN  run' = LoadStep("fact_payment",
                           Merge(run.frame, current, "product_id", "product_id"))
    /\ UNCHANGED <<db, tx, files, refreshed, ingests, loads, waiting>>

LoadFactMergePayment ==
    /\ LoadAt("fact_payment")
    /\ LET methods == Project(tx.warehouse.dim_payment_method,
                              {"payment_method_key", "payment_method_name"})
           merged == Merge(run.frame, methods, "payment_method", "payment_method_name")
       IN  run' = LoadStep("fact_truncate", Project(merged, FactColumns))
    /\ UNCHANGED <<db, tx, files, refreshed, ingests, loads, waiting>>

\* The TRUNCATE of fact_sales forgotten.
LoadFactTruncate_Skipped ==
    /\ LoadAt("fact_truncate")
    /\ run' = LoadWrite("fact_insert", run.frame)
    /\ UNCHANGED <<db, tx, files, refreshed, ingests, loads, waiting>>

LoadFactTruncate ==
    /\ LoadAt("fact_truncate")
    /\ ~Locked("warehouse.fact_sales")
    /\ tx' = [tx EXCEPT !.warehouse.fact_sales = <<>>]
    /\ run' = LoadWrite("fact_insert", run.frame)
    /\ UNCHANGED <<db, files, refreshed, ingests, loads, waiting>>

LoadFactInsert ==
    /\ LoadAt("fact_insert")
    /\ tx' = [tx EXCEPT !.warehouse.fact_sales = @ \o run.frame]
    /\ run' = LoadWrite("agg_truncate", <<>>)
    /\ UNCHANGED <<db, files, refreshed, ingests, loads, waiting>>

\* AGGREGATES
LoadAggTruncate ==
    /\ LoadAt("agg_truncate")
    /\ ~Locked("warehouse.agg_daily_sales")
    /\ tx' = [tx EXCEPT !.warehouse.agg_daily_sales = <<>>]
    /\ run' = LoadWrite("agg_insert", <<>>)
    /\ UNCHANGED <<db, files, refreshed, ingests, loads, waiting>>

LoadAggInsert ==
    /\ LoadAt("agg_insert")
    /\ \E groups \in Orders(Range(Column(tx.warehouse.fact_sales, "date_key"))) :
         LET rows == [i \in 1..Len(groups) |-> AggRow(tx.warehouse.fact_sales, groups[i])]
         IN  tx' = [tx EXCEPT !.warehouse.agg_daily_sales = @ \o rows]
    /\ run' = LoadWrite("commit", <<>>)
    /\ UNCHANGED <<db, files, refreshed, ingests, loads, waiting>>

LoadStatements ==
    {"dim_date_truncate", "dim_date_insert", "payment_read", "payment_truncate",
     "payment_insert", "customers_read", "customers_truncate", "customers_insert",
     "products_read", "products_truncate", "products_insert", "fact_read",
     "fact_customers", "fact_products", "fact_payment", "fact_truncate", "fact_insert",
     "agg_truncate", "agg_insert"}

\* A statement raises: the exception leaves the with block, the transaction
\* rolls back and main propagates it.
LoadStoreError ==
    /\ run.stage = "load" /\ run.pc \in LoadStatements
    /\ tx' = db
    /\ run' = Ended("load", "raised", FALSE, run.writes)
    /\ UNCHANGED <<db, files, refreshed, ingests, loads, waiting>>

\* Leaving "with engine.begin()" without an exception commits.
LoadCommit ==
    /\ LoadAt("commit")
    /\ db' = tx
    /\ run' = Ended("load", "done", FALSE, run.writes)
    /\ UNCHANGED <<tx, files, refreshed, ingests, loads, waiting>>

Load ==
    \/ LoadBegin
    \/ LoadDimDateTruncate \/ LoadDimDateInsert
    \/ LoadPaymentRead \/ LoadPaymentTruncate \/ LoadPaymentInsert
    \/ LoadCustomersRead \/ LoadCustomersTruncate \/ LoadCustomersInsert
    \/ LoadProductsRead \/ LoadProductsTruncate \/ LoadProductsInsert
    \/ LoadFactRead \/ LoadFactMergeCustomers \/ LoadFactMergeProducts
    \/ LoadFactMergePayment \/ LoadFactTruncate \/ LoadFactInsert
    \/ LoadAggTruncate \/ LoadAggInsert
    \/ LoadStoreError \/ LoadCommit

\* ------------------------------------------------------------------------
\* Specifications
\* ------------------------------------------------------------------------
\* The staging loader and the cleansing stage, from the empty database.
Next == Ingest \/ Clean

Spec == Init /\ [][Next]_vars

\* The production tables the cleansing stage can have committed: any rows that
\* pass its rules, one row per key.
UniqueKeySubsets(S, col) ==
    {T \in SUBSET S : \A a, b \in T : a[col] = b[col] => a = b}

AsTable(S) == CHOOSE q \in Orders(S) : TRUE

ProductionInputs ==
    {[customers |-> AsTable(c), products |-> AsTable(p),
      transactions |-> AsTable(t), transaction_items |-> AsTable(i)] :
        c \in UniqueKeySubsets({NormalizeCustomer(r) : r \in CustomerRows}, "customer_id"),
        p \in UniqueKeySubsets({r \in ProductRows : PriceRule(r) /\ CostRule(r)},
                               "product_id"),
        t \in UniqueKeySubsets({r \in TransactionRows : AmountRule(r)}, "transaction_id"),
        i \in UniqueKeySubsets({r \in ItemRows : QuantityRule(r)}, "item_id")}

\* The cleansing stage and the warehouse load, after the staging loader's runs:
\* from any such production tables, with the staging tables last loaded empty.
InitLoad ==
    /\ \E production \in ProductionInputs :
         db = [EmptyStore EXCEPT !.production = production]
    /\ tx = db
    /\ run = Ended("none", "idle", FALSE, 0)
    /\ files = [ingestion_summary |-> NoFile, transformation_summary |-> NoFile]
    /\ refreshed = TRUE
    /\ ingests = MaxIngests
    /\ loads = 0
    /\ waiting = NoOther

NextLoad == Clean \/ Load

SpecLoad == InitLoad /\ [][NextLoad]_vars

\* The warehouse load with the calendar range of each run drawn from
\* DateInputs, over production tables of two rows each.
InitDimDate ==
    /\ \E production \in ProductionInputs :
         /\ \A t \in Range(Tables) : Len(production[t]) = 2
         /\ db = [EmptyStore EXCEPT !.production = production]
    /\ tx = db
    /\ run = Ended("none", "idle", FALSE, 0)
    /\ files = [ingestion_summary |-> NoFile, transformation_summary |-> NoFile]
    /\ refreshed = TRUE
    /\ ingests = MaxIngests
    /\ loads = 0
    /\ waiting = NoOther

NextDimDate == LoadBeginRange \/ Load

SpecDimDate == InitDimDate /\ [][NextDimDate]_vars

\* The staging tables as a run of the staging loader leaves them.
Staged(customers, products, transactions, transaction_items) ==
    [customers |-> WithLoadedAt(customers), products |-> WithLoadedAt(products),
     transactions |-> WithLoadedAt(transactions),
     transaction_items |-> WithLoadedAt(transaction_items)]

StagingInputs ==
    { Staged(<<>>, <<>>, <<>>, <<>>),
      Staged(<<Customer(1, <<" ", "A", "l">>, <<"B", " ">>, <<" ", "A", "@", "x">>),
               Customer(2, NULL, <<"B">>, <<>>)>>,
             <<Product(1, 100, 60), Product(2, 0, -5)>>,
             <<Transaction(1, 1, Date(2024, 1, 5), "UPI", 100),
               Transaction(2, 2, Date(2024, 1, 5), "Cash on Delivery", 50)>>,
             <<Item(1, 1, 1, 1, 100, 0, 100), Item(2, 2, 2, 1, 250, 0, 250)>>),
      Staged(<<Customer(1, <<"A", "l">>, <<"B">>, <<"a", "@", "x">>)>>,
             <<Product(1, 100, 60), Product(2, 250, 100)>>,
             <<Transaction(1, 2, Date(2024, 1, 6), "Cash on Delivery", 70)>>,
             <<Item(2, 1, 1, 2, 100, 50, 100)>>) }

\* Two invocations of the cleansing stage, or two of the warehouse load, at
\* the same time: from staging tables a loader run has filled and production
\* tables an earlier cleansing run has committed.
InitConcurrent ==
    /\ \E staging \in StagingInputs :
       \E production \in ProductionInputs :
         /\ \/ \A t \in Range(Tables) : production[t] = <<>>
            \/ /\ Len(production["customers"]) = 2 /\ Len(production["products"]) = 2
               /\ Len(production["transactions"]) = 1
               /\ Len(production["transaction_items"]) = 1
         /\ db = [EmptyStore EXCEPT !.staging = staging, !.production = production]
    /\ tx = db
    /\ run = Ended("none", "idle", FALSE, 0)
    /\ files = [ingestion_summary |-> NoFile, transformation_summary |-> NoFile]
    /\ refreshed = TRUE
    /\ ingests = MaxIngests
    /\ loads = 0
    /\ waiting = NoOther

NextConcurrent == Clean \/ Load \/ Switch

SpecConcurrent == InitConcurrent /\ [][NextConcurrent]_vars

\* ------------------------------------------------------------------------
\* Properties of the cleansing stage (checked under Spec)
\* ------------------------------------------------------------------------
IsPrefix(a, b) == Len(a) <= Len(b) /\ SubSeq(b, 1, Len(a)) = a

Keys(rows, col) == Range(Column(rows, col))

\* The cleansing run has executed every statement and is about to commit.
CleanReady == run.stage = "clean" /\ run.pc = "commit"
\* The cleansing run has just committed.
CleanCommitted == run.stage = "clean" /\ run.pc = "summary"

\* C1: a cleansing run that starts with the staging tables as the previous
\* committed cleansing run left them has no transaction row and no item row
\* to insert, and leaves production.transactions and
\* production.transaction_items as they were.
C1_SecondRunInsertsNothing ==
    (run.stage = "clean" /\ run.pc \notin Stopped /\ ~run.fresh) =>
        /\ run.pc = "transactions_insert" => run.frame = <<>>
        /\ run.pc = "transaction_items_insert" => run.frame = <<>>
        /\ tx.production["transactions"] = db.production["transactions"]
        /\ tx.production["transaction_items"] = db.production["transaction_items"]
        /\ "transactions" \in DOMAIN run.records_processed =>
               run.records_processed["transactions"].output = 0
        /\ "transaction_items" \in DOMAIN run.records_processed =>
               run.records_processed["transaction_items"].output = 0

\* A second run over unchanged staging with rows staged and in production.
C1_Witness ==
    /\ CleanReady /\ ~run.fresh
    /\ ValidTransactions(tx.staging["transactions"]) # <<>>
    /\ ValidItems(tx.staging["transaction_items"]) # <<>>
    /\ db.production["transactions"] # <<>>

\* Text without a blank at either end (NULL included).
Trimmed(s) == s = <<>> \/ (s[1] # " " /\ s[Len(s)] # " ")

\* C2: after a committed cleansing run production.customers is the normalized
\* staging.customers (names and email trimmed, email in lower case) and
\* production.products is the staging.products rows with price > 0 and
\* cost < price, as multisets without loaded_at.
C2_ReplaceDeterminism ==
    CleanCommitted =>
        /\ \A r \in Range(db.production["customers"]) :
              /\ Trimmed(r.first_name) /\ Trimmed(r.last_name) /\ Trimmed(r.email)
              /\ Range(r.email) \cap {"A", "B"} = {}
        /\ RowBag(db.production["customers"]) =
               RowBag(DropLoadedAt([i \in 1..Len(db.staging["customers"]) |->
                          NormalizeCustomer(db.staging["customers"][i])]))
        /\ LET ok(r) == r.price > 0 /\ r.cost < r.price
           IN  RowBag(db.production["products"]) =
                   RowBag(DropLoadedAt(SelectSeq(db.staging["products"], ok)))

\* A committed run that normalized a customer and dropped a product.
C2_Witness ==
    /\ CleanCommitted
    /\ \E i \in 1..Len(db.staging["customers"]) :
          NormalizeCustomer(db.staging["customers"][i]) # db.staging["customers"][i]
    /\ \E i \in 1..Len(db.staging["products"]) :
          db.staging["products"][i].price <= 0

ProductionValid(store) ==
    /\ \A r \in Range(store.production["products"]) : r.price > 0 /\ r.cost < r.price
    /\ \A r \in Range(store.production["transactions"]) : r.total_amount > 0
    /\ \A r \in Range(store.production["transaction_items"]) : r.quantity > 0

\* C3: every production.products row has price > 0 and cost < price, every
\* production.transactions row total_amount > 0, every
\* production.transaction_items row quantity > 0, committed or not.
C3_ValidationInvariant == ProductionValid(db) /\ ProductionValid(tx)

\* Rows violating each rule were staged next to rows that were written.
C3_Witness ==
    /\ CleanCommitted
    /\ \E r \in Range(db.staging["products"]) : r.cost >= r.price
    /\ db.production["products"] # <<>>

AppendOnly(old, new, col) ==
    /\ IsPrefix(old, new)
    /\ \A i \in Len(old) + 1..Len(new) : new[i][col] \notin Keys(old, col)

CountKept(staged, old, new, col) ==
    Keys(staged, col) \subseteq Keys(old, col) => Len(new) = Len(old)

\* C4: no step deletes or changes a committed row of production.transactions
\* or production.transaction_items, a row added has a key that was not there,
\* and when every staged key was already there the row count stays.
C4_AppendOnly ==
    [][ /\ AppendOnly(db.production["transactions"],
                      db'.production["transactions"], "transaction_id")
        /\ AppendOnly(db.production["transaction_items"],
                      db'.production["transaction_items"], "item_id")
        /\ CountKept(db.staging["transactions"], db.production["transactions"],
                     db'.production["transactions"], "transaction_id")
        /\ CountKept(db.staging["transaction_items"], db.production["transaction_items"],
                     db'.production["transaction_items"], "item_id") ]_vars

\* A committed run that met a staged transaction whose key was already in
\* production with other contents, and kept the old row.
C4_Witness ==
    /\ CleanCommitted
    /\ \E s \in Range(DropLoadedAt(db.staging["transactions"])) :
       \E r \in Range(db.production["transactions"]) :
          s.transaction_id = r.transaction_id /\ s # r /\ s.total_amount > 0

\* C5: in the run summary the filtered count of every table is the staging
\* rows read minus the rows written (1 for a single product with price 0).
C5_FilteredCount ==
    CleanCommitted =>
        \A t \in DOMAIN run.records_processed :
            run.records_processed[t].filtered =
                Len(db.staging[t]) - run.records_processed[t].output

KeyColumn(t) ==
    CASE t = "customers" -> "customer_id"
      [] t = "products" -> "product_id"
      [] t = "transactions" -> "transaction_id"
      [] t = "transaction_items" -> "item_id"

OneRowPerKey(rows, col) ==
    \A i, j \in 1..Len(rows) : rows[i][col] = rows[j][col] => i = j

StagingReads ==
    {"customers_read", "products_read", "transactions_read", "transaction_items_read"}

\* C15: a run that fails because a source is missing (a CSV file for the
\* staging loader, a staging table for the cleansing stage) has executed no
\* TRUNCATE and no INSERT, whichever source it is.
C15_AbortBeforeWrite ==
    [][ /\ (/\ run.stage = "ingest" /\ run.pc = "check"
            /\ run'.pc = "finally" /\ run'.error = "Missing file") => run.writes = 0
        /\ (/\ run.stage = "clean" /\ run.pc \in StagingReads
            /\ run'.pc = "raised") => run.writes = 0 ]_vars

\* ------------------------------------------------------------------------
\* Properties of the warehouse load (checked under SpecLoad)
\* ------------------------------------------------------------------------
\* The warehouse load has just committed.
LoadCommitted == run.stage = "load" /\ run.pc = "done"

TransactionOf(store, i) ==
    {t \in Range(store.production["transactions"]) : t.transaction_id = i.transaction_id}
ProductOf(store, i) ==
    {p \in Range(store.production["products"]) : p.product_id = i.product_id}
DimCustomerOf(store, t) ==
    {c \in Range(store.warehouse.dim_customers) : c.customer_id = t.customer_id}
DimProductOf(store, i) ==
    {p \in Range(store.warehouse.dim_products) : p.product_id = i.product_id}
DimPaymentOf(store, t) ==
    {m \in Range(store.warehouse.dim_payment_method) :
        m.payment_method_name = t.payment_method}

\* The item's transaction and product exist, and so do the dimension rows of
\* its customer, its product and its payment method.
Resolves(store, i) ==
    /\ ProductOf(store, i) # {}
    /\ DimProductOf(store, i) # {}
    /\ \E t \in TransactionOf(store, i) :
          DimCustomerOf(store, t) # {} /\ DimPaymentOf(store, t) # {}

\* C6: when every production item resolves, fact_sales has as many rows as
\* production.transaction_items after the load.
C6_FactCompleteness ==
    (LoadCommitted /\ \A i \in Range(db.production["transaction_items"]) : Resolves(db, i))
        => Len(db.warehouse.fact_sales) = Len(db.production["transaction_items"])

\* A load of two items that all resolve.
C6_Witness ==
    /\ LoadCommitted
    /\ \A i \in Range(db.production["transaction_items"]) : Resolves(db, i)
    /\ Len(db.production["transaction_items"]) = 2
    /\ loads = 2

\* The fact row of an item that resolves.
ExpectedFact(store, i) ==
    LET t == CHOOSE x \in TransactionOf(store, i) : TRUE
        p == CHOOSE x \in ProductOf(store, i) : TRUE
        c == CHOOSE x \in DimCustomerOf(store, t) : TRUE
        dp == CHOOSE x \in DimProductOf(store, i) : TRUE
        m == CHOOSE x \in DimPaymentOf(store, t) : TRUE
    IN  [date_key |-> DateKey(t.transaction_date), customer_key |-> c.customer_key,
         product_key |-> dp.product_key, payment_method_key |-> m.payment_method_key,
         transaction_id |-> i.transaction_id, quantity |-> i.quantity,
         unit_price |-> i.unit_price,
         discount_amount |-> (i.unit_price * i.quantity * i.discount_percentage) \div 100,
         line_total |-> i.line_total, profit |-> i.line_total - p.cost * i.quantity]

RowsWith(rows, col, v) == {j \in 1..Len(rows) : rows[j][col] = v}

\* C7: after a load fact_sales holds one row for each production item that
\* resolves and nothing else, and each key of a fact row is the key of exactly
\* one row of its dimension.
C7_FactResolution ==
    LoadCommitted =>
        /\ LET resolves(i) == Resolves(db, i)
               items == SelectSeq(db.production["transaction_items"], resolves)
           IN  RowBag(db.warehouse.fact_sales) =
                   RowBag([j \in 1..Len(items) |-> ExpectedFact(db, items[j])])
        /\ \A f \in Range(db.warehouse.fact_sales) :
              /\ Cardinality(RowsWith(db.warehouse.dim_customers,
                                      "customer_key", f.customer_key)) = 1
              /\ Cardinality(RowsWith(db.warehouse.dim_products,
                                      "product_key", f.product_key)) = 1
              /\ Cardinality(RowsWith(db.warehouse.dim_payment_method,
                                      "payment_method_key", f.payment_method_key)) = 1

\* A load that kept one item and dropped another, with two products to join.
C7_Witness ==
    /\ LoadCommitted
    /\ Len(db.warehouse.fact_sales) = 1
    /\ Len(db.production["transaction_items"]) = 2
    /\ Len(db.production["products"]) = 2

\* C8: after a load agg_daily_sales has one row for each date_key of fact_sales
\* and no other row, each with the sums and distinct counts of the fact rows of
\* that day.
C8_AggregateCorrectness ==
    LoadCommitted =>
        LET fact == db.warehouse.fact_sales
            agg == db.warehouse.agg_daily_sales
            day(k) == {j \in 1..Len(fact) : fact[j].date_key = k}
        IN  /\ \A j \in 1..Len(fact) :
                  Cardinality(RowsWith(agg, "date_key", fact[j].date_key)) = 1
            /\ \A a \in Range(agg) :
                  /\ day(a.date_key) # {}
                  /\ a.total_revenue = Sum(Column(SelectSeq(fact,
                         LAMBDA r : r.date_key = a.date_key), "line_total"))
                  /\ a.total_profit = Sum(Column(SelectSeq(fact,
                         LAMBDA r : r.date_key = a.date_key), "profit"))
                  /\ a.total_transactions =
                         Cardinality({fact[j].transaction_id : j \in day(a.date_key)})
                  /\ a.unique_customers =
                         Cardinality({fact[j].customer_key : j \in day(a.date_key)})

\* A second load whose day has two fact rows of one transaction.
C8_Witness ==
    /\ LoadCommitted /\ loads = 2
    /\ \E a \in Range(db.warehouse.agg_daily_sales) :
          a.total_transactions = 1 /\ a.total_revenue = 200

\* The TRUNCATE and INSERT statements of a complete run of each stage.
StageWrites(stage) == IF stage = "clean" THEN 6 ELSE 12

\* C9: a cleansing run or a warehouse load that fails leaves the committed
\* tables as they were, whatever it had truncated and inserted, and the
\* committed tables change only when a run that has executed all its
\* statements commits.
C9_StageAtomicity ==
    [][ /\ (run.pc \notin Stopped /\ run'.pc = "raised") => (db' = db /\ tx' = db)
        /\ db' # db => /\ run.pc = "commit"
                       /\ run.writes = StageWrites(run.stage)
                       /\ db' = tx ]_vars

\* A warehouse load that failed after emptying and refilling some tables,
\* with an aggregate committed by the load before it.
C9_Witness ==
    /\ run.stage = "load" /\ run.pc = "raised" /\ run.writes = 11
    /\ db.warehouse.agg_daily_sales # <<>>

\* C10: a run that failed wrote its summary, the summary carries an error
\* message, and the error reached the caller; for the staging loader and for
\* the cleansing stage.
C10_FailureReported ==
    (run.pc = "raised" /\ run.stage \in {"ingest", "clean"}) =>
        /\ run.wrote
        /\ LET summary == IF run.stage = "ingest" THEN files.ingestion_summary
                          ELSE files.transformation_summary
           IN  summary.written /\ summary.error # ""

\* The dimension holds one row for each production row, by business key, all
\* of them open and current.
SingleCurrentVersion(dim, production, col) ==
    /\ Len(dim) = Len(production)
    /\ RowBag(Column(dim, col)) = RowBag(Column(production, col))
    /\ \A r \in Range(dim) : r.is_current = TRUE /\ r.end_date = NULL

\* C13: after a load, whatever loads ran before it, dim_customers has exactly
\* one row for each row of production.customers and dim_products one for each
\* row of production.products, every row with is_current = true and no
\* end_date, and nothing else.
C13_SingleCurrentVersion ==
    LoadCommitted =>
        /\ SingleCurrentVersion(db.warehouse.dim_customers,
                                db.production["customers"], "customer_id")
        /\ SingleCurrentVersion(db.warehouse.dim_products,
                                db.production["products"], "product_id")

\* A second load of two customers and two products over the four dimension
\* rows the first load had keyed.
C13_Witness ==
    /\ LoadCommitted /\ loads = 2
    /\ Len(db.warehouse.dim_customers) = 2 /\ db.warehouse.next_key.dim_customers = 5
    /\ Len(db.warehouse.dim_products) = 2 /\ db.warehouse.next_key.dim_products = 5

\* ------------------------------------------------------------------------
\* Properties of two invocations at the same time (checked under
\* SpecConcurrent)
\* ------------------------------------------------------------------------
\* The positions at which the next statement is a TRUNCATE.
TruncatePositions ==
    {"customers_truncate", "products_truncate", "dim_date_truncate",
     "payment_truncate", "fact_truncate", "agg_truncate"}

\* The table the run is about to truncate.
AboutToTruncate(r) == Truncated(r.stage)[(r.writes \div 2) + 1]

CleanOutcome(store) ==
    LET fresh(t, col) ==
            LET staged == IF t = "transactions" THEN ValidTransactions(store.staging[t])
                          ELSE ValidItems(store.staging[t])
                isNew(r) == r[col] \notin Keys(store.production[t], col)
            IN  store.production[t] \o DropLoadedAt(SelectSeq(staged, isNew))
    IN  [customers |-> DropLoadedAt(CleanCustomers(store.staging["customers"])),
         products |-> DropLoadedAt(ValidProducts(store.staging["products"])),
         transactions |-> fresh("transactions", "transaction_id"),
         transaction_items |-> fresh("transaction_items", "item_id")]

\* The warehouse in view is what a load executed alone on the store leaves:
\* one copy of the calendar and of each production snapshot, keyed from the
\* store's sequences, one fact row per item that resolves and one aggregate
\* row per day.
LoadOutcome(store, view) ==
    LET w == view.warehouse
        customers == store.production["customers"]
        products == store.production["products"]
        methods == Keys(store.production["transactions"], "payment_method")
        resolves(i) == Resolves(view, i)
    IN  /\ w.dim_date = <<DateRun(DimDateStart, DimDateEnd)>>
        /\ w.dim_customers =
               AssignKeys([i \in 1..Len(customers) |-> DimCustomerRow(customers[i])],
                          "customer_key", store.warehouse.next_key.dim_customers)
        /\ w.dim_products =
               AssignKeys([i \in 1..Len(products) |-> DimProductRow(products[i])],
                          "product_key", store.warehouse.next_key.dim_products)
        /\ Keys(w.dim_payment_method, "payment_method_name") = methods
        /\ Len(w.dim_payment_method) = Cardinality(methods)
        /\ w.next_key =
               [dim_payment_method |->
                    store.warehouse.next_key.dim_payment_method + Cardinality(methods),
                dim_customers |-> store.warehouse.next_key.dim_customers + Len(customers),
                dim_products |-> store.warehouse.next_key.dim_products + Len(products)]
        /\ Len(w.fact_sales) =
               Len(SelectSeq(store.production["transaction_items"], resolves))
        /\ Len(w.agg_daily_sales) = Cardinality(Keys(w.fact_sales, "date_key"))

JulianDay(d) ==
    LET a == (14 - d.month) \div 12
        y == d.year + 4800 - a
        m == d.month + 12 * a - 3
    IN  d.day + ((153 * m + 2) \div 5) + 365 * y + (y \div 4) - (y \div 100)
        + (y \div 400) - 32045

\* A day of the calendar, for the years 2023 and 2024.
IsDay(d) ==
    /\ d.month \in 1..12
    /\ d.day >= 1
    /\ d.day <= (CASE d.month = 2 -> IF d.year = 2024 THEN 29 ELSE 28
                   [] d.month \in {4, 6, 9, 11} -> 30
                   [] OTHER -> 31)

\* C12: the step of build_dim_date that inserts its rows leaves
\* warehouse.dim_date with end_date - start_date + 1 rows, the i-th of them
\* the i-th day of [start_date, end_date] (so no row of an earlier build),
\* with date_key = YYYYMMDD, quarter = (month-1)//3 + 1 and is_weekend true
\* exactly on a Saturday or a Sunday.
C12_DimDateConstruction ==
    [][ (LoadAt("dim_date_insert") /\ run'.pc = "payment_read") =>
          \A start_date \in {run.frame[1].start_date} :
          \A end_date \in {run.frame[1].end_date} :
          \A rows \in {DimDateTable(tx'.warehouse.dim_date)} :
              /\ Len(rows) = JulianDay(end_date) - JulianDay(start_date) + 1
              /\ \A i \in 1..Len(rows) :
                  \A r \in {rows[i]} :
                  \A d \in {r.full_date} :
                      /\ IsDay(d)
                      /\ JulianDay(d) = JulianDay(start_date) + i - 1
                      /\ r.date_key = d.year * 10000 + d.month * 100 + d.day
                      /\ r.year = d.year
                      /\ r.month = d.month
                      /\ r.day = d.day
                      /\ r.quarter = (CASE d.month <= 3 -> 1
                                        [] d.month \in 4..6 -> 2
                                        [] d.month \in 7..9 -> 3
                                        [] OTHER -> 4)
                      /\ r.is_weekend = (JulianDay(d) % 7 \in {5, 6}) ]_vars

\* The second build, for 2024-01-01..2024-01-03, has left its three rows (no
\* weekend among them) over a first build that ended on Saturday 2024-01-06.
C12_Witness ==
    /\ LoadAt("payment_read") /\ loads = 2
    /\ db.warehouse.dim_date = <<DateRun(Date(2024, 1, 3), Date(2024, 1, 6))>>
    /\ \A rows \in {DimDateTable(tx.warehouse.dim_date)} :
          /\ Len(rows) = 3
          /\ \A i \in 1..3 : rows[i].date_key = 20240100 + i /\ ~rows[i].is_weekend
    /\ \E rows \in {DimDateTable(db.warehouse.dim_date)} :
          \E i \in 1..Len(rows) : rows[i].is_weekend
====
